---------------------------- MODULE Spec2Model ----------------------------
(***************************************************************************)
(* NBA Edge Alpha bot: the position ledger (portfolio.py), the morning     *)
(* allocation session and the evening resolution retry driver (bot.py),    *)
(* the scorer (nea_formula.py) and the snapshot file shared with the       *)
(* dashboard (dashboard_server.py).                                        *)
(*                                                                         *)
(* Money.  The program keeps money in binary floating point.  The model    *)
(* keeps it as an exact integer number of units, K units to 0.0001 dollar, *)
(* K = 99, so that stake * (100/price - 1) is a whole number of units for  *)
(* every price the model draws (40, 45, 55, 150) and so that rounding to 4 *)
(* decimals (a multiple of K, K odd) never meets a tie.  Where the result  *)
(* of a float operation depends on the last bit (round(x, 2) of an exact   *)
(* half cent, x >= y with x = y in exact arithmetic) the model takes       *)
(* either outcome.                                                         *)
(***************************************************************************)
EXTENDS Integers, Sequences, FiniteSets, TLC

\* ------------------------------------------------------------------ bounds
MaxBets == 2
MaxLedgerBets == 4
MaxGames == 2
MaxDays == 2
MaxRawGames == 2
MaxEveningBets == 3
MaxFirstBootSessions == 2

\* ------------------------------------------------------- program constants
INITIAL_CAPITAL == 20
MAX_BET_PCT == 33
MAX_TOTAL_EXPOSED == 33
MAX_EVENING_RETRIES == 6
DUST_CENTS == 10

\* -------------------------------------------------------------- money units
K == 9 * 11
E4 == K
CENT == 100 * K
DOLLAR == 100 * CENT

\* round(x, 4): nearest multiple of 0.0001 (no ties, E4 is odd)
Round4(x) == ((2 * x + E4) \div (2 * E4)) * E4

\* round(x, 2): nearest cent; an exact half cent goes either way
Round2Set(x) ==
    LET lo == (x \div CENT) * CENT
        r  == x - lo
    IN  IF 2 * r < CENT THEN {lo}
        ELSE IF 2 * r > CENT THEN {lo + CENT}
        ELSE {lo, lo + CENT}

Max(a, b) == IF a >= b THEN a ELSE b
Min(a, b) == IF a <= b THEN a ELSE b

RECURSIVE SumSeq(_)
SumSeq(s) == IF s = <<>> THEN 0 ELSE Head(s) + SumSeq(Tail(s))

SeqToSet(s) == {s[i] : i \in 1..Len(s)}

\* ------------------------------------------------------------------ values
NoneVal == <<>>
Some(v) == <<v>>

Teams == {"Lakers", "Warriors", "Celtics", "Heat"}
Keys == {<<"Lakers", "Warriors">>, <<"Celtics", "Heat">>}

\* cap * pct / 100 rounded down to a unit, without leaving 32 bits
PctOf(cap, pct) == (cap \div 100) * pct + ((cap % 100) * pct) \div 100

\* whether cap * pct / 100 is a whole number of units
PctExact(cap, pct) == ((cap % 100) * pct) % 100 = 0

\* ------------------------------------------------------- ledger: helpers
\* Portfolio.deployed_capital
deployed_capital(bs) ==
    SumSeq([i \in 1..Len(bs) |->
              IF bs[i].status = "OPEN" THEN bs[i].amount_usd ELSE 0])

\* Portfolio.available_capital(max_total_exposed), max_total_exposed in percent
available_capital_ignoring_deployed(cap, bs, pct) ==
    Max(0, PctOf(cap, pct))

available_capital(cap, bs, pct) ==
    Max(0, PctOf(cap, pct) - deployed_capital(bs))

\* Portfolio.exposure_ratio(), as the fraction <<numerator, denominator>>
exposure_ratio(cap, bs) ==
    IF cap = 0 THEN <<1, 1>> ELSE <<deployed_capital(bs), cap>>

\* Portfolio.exposure_ratio() >= pct/100, as the set of answers the float
\* comparison can give: capital == 0 reads as ratio 1.0; at exact equality the
\* float quotient may land on either side of the float constant.
ExposureAtOrAbove(cap, bs, pct) ==
    LET d == deployed_capital(bs) IN
    IF cap = 0 THEN {100 >= pct}
    ELSE IF PctExact(cap, pct) /\ d = PctOf(cap, pct) THEN {TRUE, FALSE}
    ELSE IF cap > 0 THEN {d > PctOf(cap, pct)}
    ELSE {d <= PctOf(cap, pct)}

\* Portfolio.save: the record written to the file
Snapshot_cents(cap, init, tp, bs) ==
    [content |-> "full", capital |-> (cap \div CENT) * CENT, initial |-> init,
     total_pnl |-> (tp \div CENT) * CENT, bets |-> bs]

Snapshot(cap, init, tp, bs) ==
    [content |-> "full", capital |-> Round4(cap), initial |-> init,
     total_pnl |-> Round4(tp), bets |-> bs]

\* Portfolio._load of a complete snapshot: the ledger the new object holds
loaded(f) ==
    [capital |-> f.capital, initial |-> f.initial, total_pnl |-> f.total_pnl,
     bets |-> f.bets]

NoData(c) ==
    [content |-> c, capital |-> 0, initial |-> 0, total_pnl |-> 0, bets |-> <<>>]

\* Portfolio.place_bet: a fresh id, then append; the status is the caller's
place_bet(bs, bet) == Append(bs, [bet EXCEPT !.id = Len(bs) + 1])

\* resolve_bet's test of one position against the key
IsMatchAnyStatus(b, home, away) == b.home = home /\ b.away = away

IsMatch(b, home, away) ==
    b.status = "OPEN" /\ b.home = home /\ b.away = away

\* the first matching position in insertion order, 0 when there is none
FirstOpenMatch(bs, home, away) ==
    IF \E i \in 1..Len(bs) : IsMatch(bs[i], home, away)
    THEN CHOOSE i \in 1..Len(bs) :
            /\ IsMatch(bs[i], home, away)
            /\ \A j \in 1..(i - 1) : ~IsMatch(bs[j], home, away)
    ELSE 0

\* the payout in place of the profit: amount_usd * (1.0 / price)
WinPayout(b) ==
    (b.amount_usd \div CENT) * ((CENT * 100) \div b.poly_price)

\* profit = amount_usd * (1.0 / price - 1), price = poly_price / 100.0
\* (amount_usd is a whole number of cents; the quotient is exact for the
\* prices the model draws)
WinProfit(b) ==
    (b.amount_usd \div CENT) * ((CENT * (100 - b.poly_price)) \div b.poly_price)

\* the value stored in bet["pnl"]
StoredPnl(x) == Round4(x)

\* the amount added to total_pnl for a profit or loss x
TotalPnlNoLoss(tp, x) == IF x < 0 THEN tp ELSE tp + x

AddToTotalPnl(tp, x) == tp + x

\* Portfolio.resolve_bet on the ledger (cap, tp, bs).  found: a position
\* matched; raised: the call ended in ZeroDivisionError (price 0 on a win),
\* after the status, result and final_score were already written.
resolve_bet(cap, tp, bs, key, winner, final_score) ==
    LET i == FirstOpenMatch(bs, key[1], key[2]) IN
    IF i = 0
    THEN [capital |-> cap, total_pnl |-> tp, bets |-> bs,
          found |-> FALSE, raised |-> FALSE]
    ELSE
      LET b1  == [bs[i] EXCEPT !.status = "RESOLVED", !.result = winner,
                                !.final_score = final_score]
          won == (winner = bs[i].bet_on)
      IN
      IF won /\ bs[i].poly_price = 0
      THEN [capital |-> cap, total_pnl |-> tp, bets |-> [bs EXCEPT ![i] = b1],
            found |-> TRUE, raised |-> TRUE]
      ELSE
        LET x == IF won THEN WinProfit(bs[i]) ELSE 0 - bs[i].amount_usd IN
        [capital |-> cap + x, total_pnl |-> AddToTotalPnl(tp, x),
         bets |-> [bs EXCEPT ![i] = [b1 EXCEPT !.pnl = Some(StoredPnl(x))]],
         found |-> TRUE, raised |-> FALSE]

\* ------------------------------------------------------------------ scorer
W_VEGAS == 35
W_NEWS == 50
W_HOME == 10
W_STREAK == 5

\* normalize_news_score, times 6: clamp to [-40, 20], then (c + 40) / 60 * 100
normalize_news_score6(raw_n) == (Max(0 - 40, Min(20, raw_n)) + 40) * 10

\* normalize_streak
normalize_streak(win_pct) == Max(0, Min(100, win_pct))

\* compute_nea with the subtraction the other way round
compute_nea_reversed(p_poly, p_vegas, n, v, r) ==
    LET real_prob600 == 6 * W_VEGAS * p_vegas
                        + W_NEWS * normalize_news_score6(n)
                        + 6 * W_HOME * v
                        + 6 * W_STREAK * normalize_streak(r)
        nea600 == real_prob600 - 600 * p_poly
    IN  (10 * nea600 + 3) \div 6

\* compute_nea, in thousandths (the result is rounded to 3 decimals)
compute_nea(p_poly, p_vegas, n, v, r) ==
    LET real_prob600 == 6 * W_VEGAS * p_vegas
                        + W_NEWS * normalize_news_score6(n)
                        + 6 * W_HOME * v
                        + 6 * W_STREAK * normalize_streak(r)
        nea600 == 600 * p_poly - real_prob600
    IN  (10 * nea600 + 3) \div 6

\* interpret_nea on thousandths: <<action, confidence>>
interpret_nea_inclusive(nea) ==
    IF nea < 0 - 10000 THEN <<"BUY", "HIGH">>
    ELSE IF nea <= 0 - 5000 THEN <<"BUY", "MEDIUM">>
    ELSE IF nea <= 5000 THEN <<"NEUTRAL", "LOW">>
    ELSE IF nea <= 10000 THEN <<"AVOID", "MEDIUM">>
    ELSE <<"AVOID", "HIGH">>

interpret_nea(nea) ==
    IF nea < 0 - 10000 THEN <<"BUY", "HIGH">>
    ELSE IF nea < 0 - 5000 THEN <<"BUY", "MEDIUM">>
    ELSE IF nea <= 5000 THEN <<"NEUTRAL", "LOW">>
    ELSE IF nea <= 10000 THEN <<"AVOID", "MEDIUM">>
    ELSE <<"AVOID", "HIGH">>

\* ------------------------------------------------------------ input domains
\* candidates parse_games can return (both prices within 1..99)
Game(h, a, on, p, pv, n, v, r) ==
    [home |-> h, away |-> a, bet_on |-> on, poly_price |-> p, vegas_prob |-> pv,
     news_score |-> n, home_away_factor |-> v, streak_pct |-> r]

GameCatalog ==
    { Game("Lakers", "Warriors", "Lakers", 40, 60, 5, 5, 80),
      Game("Celtics", "Heat", "Heat", 45, 55, 25, 0 - 5, 40),
      Game("Celtics", "Heat", "Celtics", 75, 72, 0 - 35, 5, 60),
      Game("Lakers", "Warriors", "Warriors", 50, 70, 0 - 10, 5, 100) }

\* the day's list: up to MaxGames candidates, each game once
GameSeqs ==
    {gs \in UNION {[1..n -> GameCatalog] : n \in 0..Min(MaxGames, Cardinality(GameCatalog))} :
        \A i \in 1..Len(gs) : \A j \in 1..Len(gs) : gs[i] = gs[j] => i = j}

\* positions handed to place_bet directly (the health check's simulation does)
Bet(h, a, on, p, cents) ==
    [id |-> 0, date |-> 1, home |-> h, away |-> a, bet_on |-> on,
     poly_price |-> p, nea_score |-> 0, amount_usd |-> cents * CENT,
     status |-> "OPEN", result |-> "None", final_score |-> "None",
     pnl |-> NoneVal]

BetCatalog ==
    { Bet("Lakers", "Warriors", "Lakers", 55, 660),
      Bet("Lakers", "Warriors", "Warriors", 45, 500),
      Bet("Celtics", "Heat", "Celtics", 0, 100),
      Bet("Celtics", "Heat", "Heat", 150, 300) }

\* what the outcome source can say about one game
Outcomes ==
    {[status |-> "MISSING", winner |-> "None"]}
    \cup {[status |-> s, winner |-> "None"] :
             s \in {"IN_PROGRESS", "POSTPONED", "NOT_FOUND"}}
    \cup {[status |-> "FINAL", winner |-> w] : w \in {"home", "away"}}

NoOutcome == [status |-> "MISSING", winner |-> "None"]
EmptyMap == [k \in Keys |-> NoOutcome]

\* no function is being called on its own
NoCall == [fn |-> "none"]

\* ------------------------------------------------------------------- state
VARIABLES
    capital, initial, total_pnl, bets,   \* the Portfolio object
    file,                                \* portfolio.json
    today,                               \* date.today()
    pc, ret,                             \* where the process is; where save or
                                         \* the morning session returns to
    games,                               \* run_morning: candidates left
    open_bets, todo, still_pending,      \* run_evening: indices into bets
    resolved_map, attempt,               \* run_evening: this round's answers
    queries, deferred,                   \* history: queries this cycle; deferred
    dash,                                \* the dashboard's answer read from the
                                         \* file as it is now, if any
    call, result,                        \* a function called on its own: the
                                         \* call and what it gave
    first_run_flag,                      \* the file .first_run_done exists
    main_env,                            \* FORCE_MODE and the window main found
                                         \* at its first-boot test, once made
    first_boot_sessions                  \* history: sessions run_first_boot_bet
                                         \* has begun

ledger == <<capital, initial, total_pnl, bets>>
evening == <<open_bets, todo, still_pending, resolved_map, attempt>>
history == <<queries, deferred>>
\* everything but the dashboard's answer: what a step of the bot can change
botvars == <<capital, initial, total_pnl, bets, file, today, pc, ret, games,
             open_bets, todo, still_pending, resolved_map, attempt,
             queries, deferred>>
vars == <<capital, initial, total_pnl, bets, file, today, pc, ret, games,
          open_bets, todo, still_pending, resolved_map, attempt,
          queries, deferred, dash, call, result,
          first_run_flag, main_env, first_boot_sessions>>
\* the first-boot state
firstboot == <<first_run_flag, main_env, first_boot_sessions>>

\* --------------------------------------------------------------- the process
\* a process that is not running holds no ledger and no session
NoMemory ==
    /\ capital' = 0 /\ initial' = 0 /\ total_pnl' = 0 /\ bets' = <<>>
    /\ games' = <<>>
    /\ open_bets' = <<>> /\ todo' = <<>> /\ still_pending' = <<>>
    /\ resolved_map' = EmptyMap /\ attempt' = 0
    /\ ret' = "idle"
    /\ queries' = 0

Init ==
    /\ capital = 0 /\ initial = 0 /\ total_pnl = 0 /\ bets = <<>>
    /\ file \in {NoData("absent"), NoData("fields_missing")}
    /\ today = 1
    /\ pc = "boot" /\ ret = "idle"
    /\ games = <<>>
    /\ open_bets = <<>> /\ todo = <<>> /\ still_pending = <<>>
    /\ resolved_map = EmptyMap /\ attempt = 0
    /\ queries = 0 /\ deferred = {}
    /\ dash = NoneVal
    /\ call = NoCall /\ result = NoneVal
    /\ first_run_flag = FALSE /\ main_env = NoneVal /\ first_boot_sessions = 0

Running == pc \notin {"boot", "fatal", "exited"}

\* Portfolio.__init__ / _load, no snapshot file: a fresh ledger, then save()
LoadFresh ==
    /\ pc = "boot" /\ file.content = "absent"
    /\ capital' = INITIAL_CAPITAL * DOLLAR
    /\ initial' = INITIAL_CAPITAL * DOLLAR
    /\ total_pnl' = 0
    /\ bets' = <<>>
    /\ pc' = "save_open" /\ ret' = "idle"
    /\ UNCHANGED <<file, today, games, evening, history>>
    /\ UNCHANGED <<dash, call, result>>
    /\ UNCHANGED firstboot

\* _load, a complete snapshot: the four fields as written
LoadSnapshot ==
    /\ pc = "boot" /\ file.content = "full"
    /\ capital' = file.capital
    /\ initial' = file.initial
    /\ total_pnl' = file.total_pnl
    /\ bets' = file.bets
    /\ pc' = "idle"
    /\ UNCHANGED <<file, today, ret, games, evening, history>>
    /\ UNCHANGED <<dash, call, result>>
    /\ UNCHANGED firstboot

\* a snapshot file _load cannot read: truncated (json.load raises) or a JSON
\* object without one of the four keys (KeyError)
IsMalformed(f) == f.content \in {"empty", "partial", "fields_missing"}

\* _load taking a malformed snapshot for no snapshot
LoadCorruptAsFresh ==
    /\ pc = "boot" /\ IsMalformed(file)
    /\ capital' = INITIAL_CAPITAL * DOLLAR
    /\ initial' = INITIAL_CAPITAL * DOLLAR
    /\ total_pnl' = 0
    /\ bets' = <<>>
    /\ pc' = "save_open" /\ ret' = "idle"
    /\ UNCHANGED <<file, today, games, evening, history>>
    /\ UNCHANGED <<dash, call, result>>
    /\ UNCHANGED firstboot

\* _load, a malformed snapshot: the exception leaves Portfolio() and main, the
\* process cannot start
LoadCorrupt ==
    /\ pc = "boot" /\ IsMalformed(file)
    /\ pc' = "fatal"
    /\ UNCHANGED <<ledger, file, today, ret, games, evening, history>>
    /\ UNCHANGED <<dash, call, result>>
    /\ UNCHANGED firstboot

\* save(): open(filepath, "w") truncates the file
SaveOpen ==
    /\ pc = "save_open"
    /\ file' = NoData("empty")
    /\ pc' = "save_dump"
    /\ UNCHANGED <<ledger, today, ret, games, evening, history>>
    /\ dash' = NoneVal
    /\ UNCHANGED <<call, result>>
    /\ UNCHANGED firstboot

\* save(): json.dump writes through a buffer, which may flush before the end
SaveFlush ==
    /\ pc = "save_dump" /\ file.content = "empty"
    /\ file' = NoData("partial")
    /\ UNCHANGED <<ledger, today, pc, ret, games, evening, history>>
    /\ dash' = NoneVal
    /\ UNCHANGED <<call, result>>
    /\ UNCHANGED firstboot

\* save(): the dump completes and the file is closed
SaveDump ==
    /\ pc = "save_dump"
    /\ file' = Snapshot(capital, initial, total_pnl, bets)
    /\ pc' = ret
    /\ ret' = "idle"
    /\ UNCHANGED <<ledger, today, games, evening, history>>
    /\ dash' = NoneVal
    /\ UNCHANGED <<call, result>>
    /\ UNCHANGED firstboot

\* the process dies (kill, power loss, redeploy) and is started again
Crash ==
    /\ Running
    /\ pc' = "boot"
    /\ NoMemory
    /\ UNCHANGED <<file, today, deferred>>
    /\ UNCHANGED <<dash, call, result>>
    /\ main_env' = NoneVal
    /\ UNCHANGED <<first_run_flag, first_boot_sessions>>

\* the clock passes midnight while the scheduler or the retry driver sleeps
NextDay ==
    /\ pc \in {"idle", "ev_sleep"}
    /\ today < MaxDays
    /\ today' = today + 1
    /\ UNCHANGED <<ledger, file, pc, ret, games, evening, history>>
    /\ UNCHANGED <<dash, call, result>>
    /\ UNCHANGED firstboot

\* ------------------------------------------------------------- run_morning
\* the whole capital as the stake
bet_amount_set_all_in(cap, bs) == {cap}

\* bet_amount = round(min(capital * MAX_BET_PCT, available), 2)
bet_amount_set_unrounded(cap, bs) ==
    {Min(PctOf(cap, MAX_BET_PCT),
         available_capital(cap, bs, MAX_TOTAL_EXPOSED))}

bet_amount_set(cap, bs) ==
    Round2Set(Min(PctOf(cap, MAX_BET_PCT),
                  available_capital(cap, bs, MAX_TOTAL_EXPOSED)))

\* the position run_morning builds for a candidate
morning_bet(g, nea, amt, d) ==
    [id |-> 0, date |-> d, home |-> g.home, away |-> g.away,
     bet_on |-> g.bet_on, poly_price |-> g.poly_price,
     nea_score |-> (nea + 5) \div 10, amount_usd |-> amt,
     status |-> "OPEN", result |-> "None", final_score |-> "None",
     pnl |-> NoneVal]

\* the circuit breaker at the head of the session
MorningStart ==
    /\ pc \in {"idle", "m_start"}
    /\ Len(bets) < MaxBets
    /\ \E trip \in ExposureAtOrAbove(capital, bets, MAX_TOTAL_EXPOSED) :
          pc' = IF trip THEN ret ELSE "m_fetch"
    /\ UNCHANGED <<ledger, file, today, ret, games, evening, history>>
    /\ UNCHANGED <<dash, call, result>>
    /\ UNCHANGED firstboot

\* morning_analysis + parse_games: the candidates, possibly none
MorningFetch ==
    /\ pc = "m_fetch"
    /\ \E gs \in GameSeqs :
          /\ games' = gs
          /\ pc' = IF gs = <<>> THEN ret ELSE "m_loop"
    /\ UNCHANGED <<ledger, file, today, ret, evening, history>>
    /\ UNCHANGED <<dash, call, result>>
    /\ UNCHANGED firstboot

\* morning_analysis raises (GeminiAnalyzer._call gave up after its retries),
\* or parse_games meets a record it cannot read (only JSONDecodeError is
\* caught): nothing in run_morning or main catches it, the exception leaves
\* main and the process ends
MorningFetchFails ==
    /\ pc = "m_fetch"
    /\ pc' = "exited"
    /\ NoMemory
    /\ UNCHANGED <<file, today, deferred>>
    /\ UNCHANGED <<dash, call, result>>
    /\ main_env' = NoneVal
    /\ UNCHANGED <<first_run_flag, first_boot_sessions>>

\* the supervisor starts the process again
Restart ==
    /\ pc = "exited"
    /\ pc' = "boot"
    /\ UNCHANGED <<ledger, file, today, ret, games, evening, history>>
    /\ UNCHANGED <<dash, call, result>>
    /\ UNCHANGED firstboot

\* one candidate of the for loop, up to and including place_bet
MorningGame ==
    /\ pc = "m_loop" /\ games # <<>>
    /\ LET g   == Head(games)
           nea == compute_nea(g.poly_price, g.vegas_prob, g.news_score,
                              g.home_away_factor, g.streak_pct)
       IN
       IF interpret_nea(nea)[1] # "BUY"
       THEN /\ games' = Tail(games)
            /\ UNCHANGED <<bets, pc>>
       ELSE \E amt \in bet_amount_set(capital, bets) :
               IF amt < DUST_CENTS * CENT
               THEN /\ games' = Tail(games)
                    /\ UNCHANGED <<bets, pc>>
               ELSE /\ bets' = place_bet(bets, morning_bet(g, nea, amt, today))
                    /\ pc' = "m_order"
                    /\ UNCHANGED games
    /\ UNCHANGED <<capital, initial, total_pnl, file, today, ret, evening,
                   history>>
    /\ UNCHANGED <<dash, call, result>>
    /\ UNCHANGED firstboot

\* poly.place_order for the position just placed, then the next candidate
MorningOrder ==
    /\ pc = "m_order"
    /\ games' = Tail(games)
    /\ pc' = "m_loop"
    /\ UNCHANGED <<ledger, file, today, ret, evening, history>>
    /\ UNCHANGED <<dash, call, result>>
    /\ UNCHANGED firstboot

\* after the loop: portfolio.save(), print_summary, return
MorningEnd ==
    /\ pc = "m_loop" /\ games = <<>>
    /\ pc' = "save_open"
    /\ UNCHANGED <<ledger, file, today, ret, games, evening, history>>
    /\ UNCHANGED <<dash, call, result>>
    /\ UNCHANGED firstboot

\* ------------------------------------------------------------- run_evening
\* run_evening returns: its locals are gone
EveningReturns ==
    /\ open_bets' = <<>> /\ todo' = <<>> /\ still_pending' = <<>>
    /\ resolved_map' = EmptyMap /\ attempt' = 0
    /\ queries' = 0
    /\ pc' = "idle"

\* Portfolio.open_bets_today, as indices into bets
open_bets_today(bs, d) ==
    SelectSeq([i \in 1..Len(bs) |-> i],
              LAMBDA i : bs[i].status = "OPEN" /\ bs[i].date = d)

\* whether the retry loop waits and goes round again after round a
MoreRoundsOneTooMany(a) == a <= MAX_EVENING_RETRIES

MoreRounds(a) == a < MAX_EVENING_RETRIES

\* the test that sends a pending position to resolve_bet
IsFinalOrPostponed(o) == o.status \in {"FINAL", "POSTPONED"}

IsFinal(o) == o.status = "FINAL"

\* the answers one batched query can bring for the pending positions
ResultMaps(pending) ==
    {m \in [Keys -> Outcomes] :
        \A k \in Keys :
           (\A i \in SeqToSet(pending) : <<bets[i].home, bets[i].away>> # k)
              => m[k] = NoOutcome}

EveningStart ==
    /\ pc = "idle"
    /\ open_bets' = open_bets_today(bets, today)
    /\ pc' = "ev_started"
    /\ queries' = 0
    /\ UNCHANGED <<ledger, file, today, ret, games, todo, still_pending,
                   resolved_map, attempt, deferred>>
    /\ UNCHANGED <<dash, call, result>>
    /\ UNCHANGED firstboot

\* "No open bets to resolve tonight."
EveningNone ==
    /\ pc = "ev_started" /\ open_bets = <<>>
    /\ EveningReturns
    /\ UNCHANGED <<ledger, file, today, ret, games, deferred>>
    /\ UNCHANGED <<dash, call, result>>
    /\ UNCHANGED firstboot

\* the for loop is entered: attempt = 1
EveningFirstRound ==
    /\ pc = "ev_started" /\ open_bets # <<>>
    /\ attempt' = 1
    /\ pc' = "ev_round"
    /\ UNCHANGED <<ledger, file, today, ret, games, open_bets, todo,
                   still_pending, resolved_map, history>>
    /\ UNCHANGED <<dash, call, result>>
    /\ UNCHANGED firstboot

\* evening_resolution + parse_results: one query for all pending positions
EveningQuery ==
    /\ pc = "ev_round"
    /\ \E m \in ResultMaps(open_bets) : resolved_map' = m
    /\ todo' = open_bets
    /\ still_pending' = <<>>
    /\ queries' = queries + 1
    /\ pc' = "ev_loop"
    /\ UNCHANGED <<ledger, file, today, ret, games, open_bets, attempt,
                   deferred>>
    /\ UNCHANGED <<dash, call, result>>
    /\ UNCHANGED firstboot

\* evening_resolution raises, or parse_results meets a malformed record:
\* nothing catches it, the process ends
EveningQueryFails ==
    /\ pc = "ev_round"
    /\ pc' = "boot"
    /\ NoMemory
    /\ UNCHANGED <<file, today, deferred>>
    /\ UNCHANGED <<dash, call, result>>
    /\ main_env' = NoneVal
    /\ UNCHANGED <<first_run_flag, first_boot_sessions>>

\* one pending position of the inner for loop
EveningBet ==
    /\ pc = "ev_loop" /\ todo # <<>>
    /\ LET i   == Head(todo)
           key == <<bets[i].home, bets[i].away>>
           o   == resolved_map[key]
           w   == IF o.winner = "home" THEN bets[i].home ELSE bets[i].away
           r   == resolve_bet(capital, total_pnl, bets, key, w, "F")
       IN
       IF IsFinal(o)
       THEN IF r.raised
            THEN /\ pc' = "boot"
                 /\ NoMemory
            ELSE /\ capital' = r.capital
                 /\ total_pnl' = r.total_pnl
                 /\ bets' = r.bets
                 /\ todo' = Tail(todo)
                 /\ UNCHANGED <<initial, pc, ret, games, open_bets,
                                still_pending, resolved_map, attempt, queries>>
       ELSE /\ still_pending' = Append(still_pending, i)
            /\ todo' = Tail(todo)
            /\ UNCHANGED <<ledger, pc, ret, games, open_bets, resolved_map,
                           attempt, queries>>
    /\ UNCHANGED <<file, today, deferred>>
    /\ UNCHANGED <<dash, call, result>>
    /\ UNCHANGED firstboot

\* after the inner loop: portfolio.save() (the round's answers are not read
\* again)
EveningRoundEnd ==
    /\ pc = "ev_loop" /\ todo = <<>>
    /\ resolved_map' = EmptyMap
    /\ pc' = "save_open" /\ ret' = "ev_saved"
    /\ UNCHANGED <<ledger, file, today, games, open_bets, todo, still_pending,
                   attempt, history>>
    /\ UNCHANGED <<dash, call, result>>
    /\ UNCHANGED firstboot

\* open_bets = still_pending; all resolved: break
EveningDone ==
    /\ pc = "ev_saved" /\ still_pending = <<>>
    /\ EveningReturns
    /\ UNCHANGED <<ledger, file, today, ret, games, deferred>>
    /\ UNCHANGED <<dash, call, result>>
    /\ UNCHANGED firstboot

\* some still pending and rounds left: time.sleep(3600)
EveningWait ==
    /\ pc = "ev_saved" /\ still_pending # <<>>
    /\ MoreRounds(attempt)
    /\ open_bets' = still_pending
    /\ pc' = "ev_sleep"
    /\ UNCHANGED <<ledger, file, today, ret, games, todo, still_pending,
                   resolved_map, attempt, history>>
    /\ UNCHANGED <<dash, call, result>>
    /\ UNCHANGED firstboot

\* some still pending after the last round: "Will retry tomorrow evening."
EveningDeferred ==
    /\ pc = "ev_saved" /\ still_pending # <<>>
    /\ ~MoreRounds(attempt)
    /\ deferred' = deferred \cup SeqToSet(still_pending)
    /\ EveningReturns
    /\ UNCHANGED <<ledger, file, today, ret, games>>
    /\ UNCHANGED <<dash, call, result>>
    /\ UNCHANGED firstboot

\* the sleep ends: the next round
EveningWake ==
    /\ pc = "ev_sleep"
    /\ attempt' = attempt + 1
    /\ pc' = "ev_round"
    /\ UNCHANGED <<ledger, file, today, ret, games, open_bets, todo,
                   still_pending, resolved_map, history>>
    /\ UNCHANGED <<dash, call, result>>
    /\ UNCHANGED firstboot

\* --------------------------------------------------------- dashboard_server
DASHBOARD_DEFAULT_CAPITAL == 20

\* what read_portfolio returns when there is no file or it does not parse
DefaultData ==
    [capital |-> DASHBOARD_DEFAULT_CAPITAL * DOLLAR,
     initial |-> DASHBOARD_DEFAULT_CAPITAL * DOLLAR,
     total_pnl |-> 0, bets |-> <<>>]

\* read_portfolio answering a file that does not parse with an empty ledger
read_portfolio_zero_on_error(f) ==
    IF f.content = "full"
    THEN [capital |-> f.capital, initial |-> f.initial,
          total_pnl |-> f.total_pnl, bets |-> f.bets]
    ELSE IF f.content = "absent" THEN DefaultData
    ELSE [capital |-> 0, initial |-> 0, total_pnl |-> 0, bets |-> <<>>]

\* read_portfolio: the parsed file; the default when the file is absent or
\* json.loads raises (a JSON object lacking keys parses, and api_state's
\* data.get supplies the same defaults)
read_portfolio(f) ==
    IF f.content = "full"
    THEN [capital |-> f.capital, initial |-> f.initial,
          total_pnl |-> f.total_pnl, bets |-> f.bets]
    ELSE DefaultData

\* api_state's tests of one position
IsOpen(b) == b.status = "OPEN"
IsWin(b) == b.status = "RESOLVED" /\ b.pnl # NoneVal /\ b.pnl[1] > 0
IsLoss(b) == b.status = "RESOLVED" /\ (b.pnl = NoneVal \/ b.pnl[1] <= 0)

\* api_state: the projection served, from what read_portfolio returned
api_state(f) ==
    LET data == read_portfolio(f) IN
    [capital    |-> Round4(data.capital),
     initial    |-> data.initial,
     total_pnl  |-> Round4(data.total_pnl),
     total_bets |-> Len(data.bets),
     open_bets  |-> Cardinality({i \in 1..Len(data.bets) : IsOpen(data.bets[i])}),
     wins       |-> Cardinality({i \in 1..Len(data.bets) : IsWin(data.bets[i])}),
     losses     |-> Cardinality({i \in 1..Len(data.bets) : IsLoss(data.bets[i])})]

\* a request to /api/state, served by the dashboard thread at any moment of
\* the bot's run, a save in progress included
DashboardRead ==
    /\ Running
    /\ dash' = Some(api_state(file))
    /\ UNCHANGED <<call, result>>
    /\ UNCHANGED firstboot
    /\ UNCHANGED <<ledger, file, today, pc, ret, games, evening, history>>

\* ------------------------------------------------------------ specification
Next ==
    \/ LoadFresh \/ LoadSnapshot \/ LoadCorrupt
    \/ SaveOpen \/ SaveFlush \/ SaveDump
    \/ Crash \/ NextDay
    \/ MorningStart \/ MorningFetch \/ MorningFetchFails \/ Restart
    \/ MorningGame \/ MorningOrder \/ MorningEnd
    \/ EveningStart \/ EveningNone \/ EveningFirstRound
    \/ EveningQuery \/ EveningQueryFails \/ EveningBet \/ EveningRoundEnd
    \/ EveningDone \/ EveningWait \/ EveningDeferred \/ EveningWake
    \/ DashboardRead

Spec == Init /\ [][Next]_vars

\* ------------------------------------------- the ledger driven directly
\* A Portfolio used through place_bet and resolve_bet alone, as the health
\* check's simulation uses it: a fresh ledger of 20.00, any positions, any
\* keys and winners.  An exception resolve_bet raises is caught by the caller
\* and the object lives on as the call left it.
InitLedger ==
    /\ capital = INITIAL_CAPITAL * DOLLAR
    /\ initial = INITIAL_CAPITAL * DOLLAR
    /\ total_pnl = 0
    /\ bets = <<>>
    /\ file = Snapshot(INITIAL_CAPITAL * DOLLAR, INITIAL_CAPITAL * DOLLAR, 0, <<>>)
    /\ today = 1
    /\ pc = "api" /\ ret = "idle"
    /\ games = <<>>
    /\ open_bets = <<>> /\ todo = <<>> /\ still_pending = <<>>
    /\ resolved_map = EmptyMap /\ attempt = 0
    /\ queries = 0 /\ deferred = {}
    /\ dash = NoneVal
    /\ call = NoCall /\ result = NoneVal
    /\ first_run_flag = FALSE /\ main_env = NoneVal /\ first_boot_sessions = 0

LedgerPlace ==
    /\ pc = "api"
    /\ Len(bets) < MaxLedgerBets
    /\ \E b \in BetCatalog : bets' = place_bet(bets, b)
    /\ UNCHANGED <<capital, initial, total_pnl, file, today, pc, ret, games,
                   evening, history>>
    /\ UNCHANGED <<dash, call, result>>
    /\ UNCHANGED firstboot

LedgerResolve ==
    /\ pc = "api"
    /\ \E key \in Keys : \E w \in {key[1], key[2]} :
          LET r == resolve_bet(capital, total_pnl, bets, key, w, "F") IN
          /\ capital' = r.capital
          /\ total_pnl' = r.total_pnl
          /\ bets' = r.bets
    /\ UNCHANGED <<initial, file, today, pc, ret, games, evening, history>>
    /\ UNCHANGED <<dash, call, result>>
    /\ UNCHANGED firstboot

NextLedger == LedgerPlace \/ LedgerResolve

SpecLedger == InitLedger /\ [][NextLedger]_vars

\* ------------------------------------------- process starts and first boot
\* main from the Portfolio it built to its scheduler loop, with the session
\* run_first_boot_bet runs, over any sequence of process starts.

\* FORCE_MODE, lower-cased
ForceModes == {"", "morning", "evening", "healthcheck"}

\* the window the hour of the clock falls in
ClockWindows ==
    {"morning", "evening", "sleep_until_morning", "sleep_until_evening"}

determine_current_window(force, clock) ==
    IF force \in {"morning", "evening", "healthcheck"} THEN force ELSE clock

is_off_hours(window) ==
    window \in {"sleep_until_morning", "sleep_until_evening"}

\* main's first-boot test, and run_first_boot_bet up to its call of
\* run_morning: skipped in a session window or under a forced session,
\* skipped when the flag file exists, else the session begins
MainFirstBoot ==
    /\ pc = "idle" /\ main_env = NoneVal
    /\ \E force \in ForceModes : \E clock \in ClockWindows :
          LET window == determine_current_window(force, clock) IN
          /\ main_env' = Some([force |-> force, window |-> window])
          /\ IF is_off_hours(window) /\ force \notin {"morning", "evening"}
                /\ ~first_run_flag
             THEN /\ first_boot_sessions < MaxFirstBootSessions
                  /\ first_boot_sessions' = first_boot_sessions + 1
                  /\ pc' = "m_start" /\ ret' = "fb_flag"
             ELSE UNCHANGED <<first_boot_sessions, pc, ret>>
    /\ UNCHANGED <<ledger, file, today, games, evening, history>>
    /\ UNCHANGED <<dash, call, result>>
    /\ UNCHANGED first_run_flag

\* run_first_boot_bet after run_morning returned: flag.write_text
FirstBootFlag ==
    /\ pc = "fb_flag"
    /\ first_run_flag' = TRUE
    /\ pc' = "idle" /\ ret' = "idle"
    /\ UNCHANGED <<ledger, file, today, games, evening, history>>
    /\ UNCHANGED <<dash, call, result>>
    /\ UNCHANGED <<main_env, first_boot_sessions>>

\* run_morning entered from run_first_boot_bet
FirstBootMorningStart == pc = "m_start" /\ MorningStart

InitBoot ==
    /\ capital = 0 /\ initial = 0 /\ total_pnl = 0 /\ bets = <<>>
    /\ file = NoData("absent")
    /\ today = 1
    /\ pc = "boot" /\ ret = "idle"
    /\ games = <<>>
    /\ open_bets = <<>> /\ todo = <<>> /\ still_pending = <<>>
    /\ resolved_map = EmptyMap /\ attempt = 0
    /\ queries = 0 /\ deferred = {}
    /\ dash = NoneVal
    /\ call = NoCall /\ result = NoneVal
    /\ first_run_flag = FALSE /\ main_env = NoneVal /\ first_boot_sessions = 0

NextBoot ==
    \/ LoadFresh \/ LoadSnapshot \/ LoadCorrupt
    \/ SaveOpen \/ SaveFlush \/ SaveDump
    \/ Crash \/ Restart
    \/ MainFirstBoot
    \/ FirstBootMorningStart
    \/ MorningFetch \/ MorningFetchFails
    \/ MorningGame \/ MorningOrder \/ MorningEnd
    \/ FirstBootFlag

SpecBoot == InitBoot /\ [][NextBoot]_vars

\* ------------------------------------------- run_evening on any ledger
\* One evening session of a process whose ledger holds any positions: OPEN
\* positions of today and of earlier days, several on one game.

\* positions a ledger can hold when the session starts
EveningCatalog ==
    {[b EXCEPT !.date = d] :
        b \in {Bet("Lakers", "Warriors", "Lakers", 55, 660),
               Bet("Celtics", "Heat", "Heat", 150, 300)},
        d \in 1..MaxDays}

\* the ledgers: place_bet has given each position its id
EveningLedgers ==
    {[i \in 1..Len(bs) |-> [bs[i] EXCEPT !.id = i]] :
        bs \in UNION {[1..n -> EveningCatalog] : n \in 0..MaxEveningBets}}

InitEvening ==
    /\ capital = INITIAL_CAPITAL * DOLLAR
    /\ initial = INITIAL_CAPITAL * DOLLAR
    /\ total_pnl = 0
    /\ bets \in EveningLedgers
    /\ file = Snapshot(capital, initial, total_pnl, bets)
    /\ today = MaxDays
    /\ pc = "idle" /\ ret = "idle"
    /\ games = <<>>
    /\ open_bets = <<>> /\ todo = <<>> /\ still_pending = <<>>
    /\ resolved_map = EmptyMap /\ attempt = 0
    /\ queries = 0 /\ deferred = {}
    /\ dash = NoneVal
    /\ call = NoCall /\ result = NoneVal
    /\ first_run_flag = FALSE /\ main_env = NoneVal /\ first_boot_sessions = 0

NextEvening ==
    \/ EveningStart \/ EveningNone \/ EveningFirstRound
    \/ EveningQuery \/ EveningBet \/ EveningRoundEnd
    \/ SaveOpen \/ SaveFlush \/ SaveDump
    \/ EveningDone \/ EveningWait \/ EveningDeferred \/ EveningWake

SpecEvening == InitEvening /\ [][NextEvening]_vars

\* ------------------------------------------- functions called on their own
\* The analyzer's and the scorer's functions take no part of the ledger: each
\* is called here on an input of its own, and the call and what it gave are
\* kept.

\* numbers in a model response are kept in half points, so that 0.5 and 99.5
\* can be told from 1 and 99
HalfPoints == 2

\* a price or probability field of one record of the response: the key is
\* missing, the value is a string, or it is a JSON number
JsonMissing == [t |-> "missing", v |-> 0]
JsonStr == [t |-> "str", v |-> 0]
JsonNum(v) == [t |-> "num", v |-> v]

\* -1, 0, 0.5, 99, 99.5, 100
RawValues ==
    {JsonMissing, JsonStr} \cup {JsonNum(v) : v \in {0 - 2, 0, 1, 198, 199, 200}}

RawGames ==
    {[home |-> "Lakers", away |-> "Warriors", poly_price |-> p, vegas_prob |-> v] :
        p \in RawValues, v \in RawValues}

\* a response: text without a JSON array, or an array of records
RawResponses ==
    {[kind |-> "text", items |-> <<>>]}
    \cup {[kind |-> "array", items |-> gs] :
            gs \in UNION {[1..n -> RawGames] : n \in 0..MaxRawGames}}

\* g.get(key, 0)
get_or_zero(x) == IF x.t = "missing" THEN JsonNum(0) ELSE x

\* x <= 0 or x >= 100, for a number
out_of_range(x) == x.v <= 0 \/ x.v >= 100 * HalfPoints

\* the comparison of a string with 0 raises TypeError; the vegas_prob test
\* comes first and the poly_price test is reached only when it passed
game_raises(g) ==
    LET poly  == get_or_zero(g.poly_price)
        vegas == get_or_zero(g.vegas_prob)
    IN  \/ vegas.t = "str"
        \/ /\ ~out_of_range(vegas)
           /\ poly.t = "str"

\* parse_games' tests of one record: neither continue is taken
keep_game(g) ==
    /\ ~out_of_range(get_or_zero(g.vegas_prob))
    /\ ~out_of_range(get_or_zero(g.poly_price))

\* GeminiAnalyzer.parse_games: only json.JSONDecodeError is caught
parse_games(raw) ==
    IF raw.kind # "array"
    THEN [raised |-> "none", valid |-> <<>>]
    ELSE IF \E i \in 1..Len(raw.items) : game_raises(raw.items[i])
         THEN [raised |-> "TypeError", valid |-> <<>>]
         ELSE [raised |-> "none", valid |-> SelectSeq(raw.items, keep_game)]

\* GeminiAnalyzer._call's default max_retries
max_retries == 4

\* the seconds in `wait = 2 ** attempt * 15`
BACKOFF_SECONDS == 15

RECURSIVE Pow2(_)
Pow2(n) == IF n = 0 THEN 1 ELSE 2 * Pow2(n - 1)

\* the wait without the doubling
backoff_wait_linear(n) == 2 * n * BACKOFF_SECONDS

\* wait = 2 ** attempt * 15
backoff_wait(n) == Pow2(n) * BACKOFF_SECONDS

\* what one generate_content_stream gives: the text, or an exception whose
\* message names a rate limit (429, quota, resource_exhausted), a server
\* error (500, 503, unavailable), or neither
ApiOutcomes == {"ok", "rate_limit", "server_err", "other"}

is_rate_limit(e) == e = "rate_limit"
is_server_err(e) == e = "server_err"

\* healthcheck's test_cases: <<p_poly, p_vegas, n, v, r>> and the expected label
test_cases ==
    { [args |-> <<75, 72, 0 - 35, 5, 60>>, expected |-> "AVOID"],
      [args |-> <<40, 60, 5, 5, 80>>, expected |-> "BUY"],
      [args |-> <<45, 55, 25, 0 - 5, 40>>, expected |-> "BUY"],
      [args |-> <<50, 50, 0, 0, 50>>, expected |-> "NEUTRAL"] }

\* scorer inputs: every mix of the values the test cases use
ScoreInputs ==
    {40, 45, 50, 75} \X {50, 55, 60, 72} \X {0 - 35, 0, 5, 25}
        \X {0 - 5, 0, 5} \X {40, 50, 60, 80}

\* edge scores in thousandths: around each threshold of interpret_nea, and
\* well inside each band
NeaInputs ==
    {0 - 42133, 0 - 20000, 0 - 10001, 0 - 10000, 0 - 9999, 0 - 7500,
     0 - 5001, 0 - 5000, 0 - 4999, 0 - 1, 0, 1, 4999, 5000, 5001, 7500,
     9999, 10000, 10001, 20000, 42133}

\* raw news scores: inside, at and beyond both ends of [-40, 20]
NewsInputs == {0 - 45, 0 - 40, 0 - 35, 0 - 10, 0, 5, 15, 20, 25}

\* the calls made
CallInputs ==
    {[fn |-> "parse_games", raw |-> raw] : raw \in RawResponses}
    \cup {[fn |-> "_call", outcomes |-> os] : os \in [1..max_retries -> ApiOutcomes]}
    \cup {[fn |-> "score", args |-> a] : a \in ScoreInputs}
    \cup {[fn |-> "interpret_nea", nea |-> e] : e \in NeaInputs}
    \cup {[fn |-> "normalize_news_score", raw_n |-> n] : n \in NewsInputs}

InitCalls ==
    /\ capital = 0 /\ initial = 0 /\ total_pnl = 0 /\ bets = <<>>
    /\ file = NoData("absent")
    /\ today = 1
    /\ pc = "calls" /\ ret = "idle"
    /\ games = <<>>
    /\ open_bets = <<>> /\ todo = <<>> /\ still_pending = <<>>
    /\ resolved_map = EmptyMap /\ attempt = 0
    /\ queries = 0 /\ deferred = {}
    /\ dash = NoneVal
    /\ call \in CallInputs /\ result = NoneVal
    /\ first_run_flag = FALSE /\ main_env = NoneVal /\ first_boot_sessions = 0

CallParseGames ==
    /\ pc = "calls" /\ call.fn = "parse_games"
    /\ result' = parse_games(call.raw)
    /\ pc' = "returned"
    /\ UNCHANGED <<capital, initial, total_pnl, bets, file, today, ret, games,
                   open_bets, todo, still_pending, resolved_map, attempt,
                   queries, deferred, dash, call>>
    /\ UNCHANGED firstboot

\* _call enters its loop: for attempt in range(1, max_retries + 1)
ApiCallBegin ==
    /\ pc = "calls" /\ call.fn = "_call"
    /\ result' = [attempt |-> 1, waits |-> <<>>, out |-> "running", error |-> "none"]
    /\ pc' = "attempting"
    /\ UNCHANGED <<capital, initial, total_pnl, bets, file, today, ret, games,
                   open_bets, todo, still_pending, resolved_map, attempt,
                   queries, deferred, dash, call>>
    /\ UNCHANGED firstboot

\* one pass of the loop: the try and its except
ApiCallAttempt ==
    /\ pc = "attempting"
    /\ LET n == result.attempt IN
       IF n > max_retries
       THEN /\ result' = [result EXCEPT !.out = "raised", !.error = "RuntimeError"]
            /\ pc' = "returned"
       ELSE LET e == call.outcomes[n] IN
            IF e = "ok"
            THEN /\ result' = [result EXCEPT !.out = "returned"]
                 /\ pc' = "returned"
            ELSE IF (is_rate_limit(e) \/ is_server_err(e)) /\ n < max_retries
            THEN /\ result' = [result EXCEPT
                                  !.attempt = n + 1,
                                  !.waits = Append(@, backoff_wait(n))]
                 /\ pc' = pc
            ELSE /\ result' = [result EXCEPT !.out = "raised", !.error = e]
                 /\ pc' = "returned"
    /\ UNCHANGED <<capital, initial, total_pnl, bets, file, today, ret, games,
                   open_bets, todo, still_pending, resolved_map, attempt,
                   queries, deferred, dash, call>>
    /\ UNCHANGED firstboot

\* compute_nea, then interpret_nea on what it returned
CallScore ==
    /\ pc = "calls" /\ call.fn = "score"
    /\ LET nea == compute_nea(call.args[1], call.args[2], call.args[3],
                              call.args[4], call.args[5])
       IN  result' = [nea |-> nea,
                      action |-> interpret_nea(nea)[1],
                      confidence |-> interpret_nea(nea)[2]]
    /\ pc' = "returned"
    /\ UNCHANGED <<capital, initial, total_pnl, bets, file, today, ret, games,
                   open_bets, todo, still_pending, resolved_map, attempt,
                   queries, deferred, dash, call>>
    /\ UNCHANGED firstboot

CallInterpretNea ==
    /\ pc = "calls" /\ call.fn = "interpret_nea"
    /\ result' = [action |-> interpret_nea(call.nea)[1],
                  confidence |-> interpret_nea(call.nea)[2]]
    /\ pc' = "returned"
    /\ UNCHANGED <<capital, initial, total_pnl, bets, file, today, ret, games,
                   open_bets, todo, still_pending, resolved_map, attempt,
                   queries, deferred, dash, call>>
    /\ UNCHANGED firstboot

\* the result is kept times 6
CallNormalizeNews ==
    /\ pc = "calls" /\ call.fn = "normalize_news_score"
    /\ result' = [times6 |-> normalize_news_score6(call.raw_n)]
    /\ pc' = "returned"
    /\ UNCHANGED <<capital, initial, total_pnl, bets, file, today, ret, games,
                   open_bets, todo, still_pending, resolved_map, attempt,
                   queries, deferred, dash, call>>
    /\ UNCHANGED firstboot

NextCalls ==
    \/ CallParseGames
    \/ ApiCallBegin
    \/ ApiCallAttempt
    \/ CallScore
    \/ CallInterpretNea
    \/ CallNormalizeNews

SpecCalls == InitCalls /\ [][NextCalls]_vars

\* ------------------------------------------------------------------ claims
key_of(b) == <<b.home, b.away>>

\* the OPEN positions under a key, by the data alone
OpenWithKey(bs, k) ==
    {i \in 1..Len(bs) : bs[i].status = "OPEN" /\ key_of(bs[i]) = k}

\* C1: in every state a sequence of place_bet and resolve_bet calls reaches,
\* capital equals initial plus total_pnl.
C1_CapitalConservation == capital = initial + total_pnl

C1_Witness ==
    /\ \E i \in 1..Len(bets) : bets[i].status = "RESOLVED" /\ bets[i].pnl # NoneVal
    /\ capital < initial

\* C2: right after each placement run_morning makes (before the order sink is
\* called), the deployed capital is at most capital * MAX_TOTAL_EXPOSED plus
\* half a cent.
C2_ExposureCap ==
    pc = "m_order" =>
        deployed_capital(bets) <= PctOf(capital, MAX_TOTAL_EXPOSED) + CENT \div 2

C2_Witness == pc = "m_order" /\ capital # initial /\ Len(bets) >= 2

\* C3 as stated: in any ledger state, for any key, when a first resolve_bet
\* resolves a position a second resolve_bet with the same key changes nothing
\* and finds nothing.
C3_SecondResolveIsNoop ==
    \A k \in Keys : \A w1 \in Teams : \A w2 \in Teams :
        LET r1 == resolve_bet(capital, total_pnl, bets, k, w1, "F")
            r2 == resolve_bet(r1.capital, r1.total_pnl, r1.bets, k, w2, "G")
        IN  r1.found =>
              /\ ~r2.found
              /\ r2.capital = r1.capital
              /\ r2.total_pnl = r1.total_pnl
              /\ r2.bets = r1.bets

\* C3 amended: the second resolve_bet never touches the position the first
\* one resolved; it changes nothing and finds nothing exactly when that
\* position was the only OPEN one under the key, and otherwise resolves the
\* next OPEN position under the key.
C3_SecondResolveSparesFirst ==
    \A k \in Keys : \A w1 \in Teams : \A w2 \in Teams :
        LET r1 == resolve_bet(capital, total_pnl, bets, k, w1, "F")
            r2 == resolve_bet(r1.capital, r1.total_pnl, r1.bets, k, w2, "G")
            open == OpenWithKey(bets, k)
        IN  r1.found =>
              /\ open # {}
              /\ \A i \in open :
                    (\A j \in open : i <= j) =>
                        /\ r1.bets[i].status = "RESOLVED"
                        /\ r2.bets[i] = r1.bets[i]
              /\ Cardinality(open) = 1 =>
                    /\ ~r2.found
                    /\ r2.capital = r1.capital
                    /\ r2.total_pnl = r1.total_pnl
                    /\ r2.bets = r1.bets
              /\ Cardinality(open) > 1 =>
                    /\ r2.found
                    /\ Cardinality(OpenWithKey(r2.bets, k)) = Cardinality(open) - 2

C3_Witness ==
    \E k \in Keys :
        /\ Cardinality(OpenWithKey(bets, k)) = 1
        /\ \E i \in 1..Len(bets) : bets[i].status = "RESOLVED" /\ key_of(bets[i]) = k

\* C4: a position's status is OPEN or RESOLVED; no step takes a position away,
\* turns a RESOLVED position back to OPEN, or changes anything of a RESOLVED
\* position (its result, final_score and pnl included).
C4_Lifecycle ==
    [][\A i \in 1..Len(bets) :
          /\ i <= Len(bets')
          /\ bets[i].status \in {"OPEN", "RESOLVED"}
          /\ bets'[i].status \in {bets[i].status, "RESOLVED"}
          /\ bets[i].status = "RESOLVED" => bets'[i] = bets[i]]_vars

C4_Witness ==
    \E i \in 1..Len(bets) : \E j \in 1..Len(bets) :
        /\ i < j
        /\ bets[i].status = "RESOLVED" /\ bets[j].status = "RESOLVED"
        /\ key_of(bets[i]) = key_of(bets[j])

\* C5 as stated: when an evening cycle has taken its pending set, every
\* position an earlier cycle deferred and that is still OPEN is in it.
C5_DeferredIsPendingNextCycle ==
    pc = "ev_started" =>
        \A i \in deferred :
            (i <= Len(bets) /\ bets[i].status = "OPEN")
                => i \in SeqToSet(open_bets)

\* C6 as stated: whenever the session is about to take its next step after a
\* possible mutation (the order-sink call, the next candidate, the next
\* outcome), the snapshot file holds the in-memory ledger.
C6_WriteThrough ==
    pc \in {"m_order", "m_loop", "ev_loop"} =>
        file = Snapshot(capital, initial, total_pnl, bets)

\* C7 as stated: once the ledger holds a position (a complete snapshot was
\* written before it could), the snapshot file is a complete record at every
\* instant.
C7_SaveAtomic == Len(bets) > 0 => file.content = "full"

\* C8 as stated: resolving an OPEN position with price 1..99 stores
\* pnl = stake * (100/price - 1) > 0 and adds it to capital and total_pnl on a
\* win, and stores pnl = -stake and subtracts the stake on a loss.
C8_PnlExact ==
    [][\A i \in 1..Len(bets) :
          (/\ i <= Len(bets')
           /\ bets[i].status = "OPEN" /\ bets'[i].status = "RESOLVED"
           /\ bets[i].poly_price \in 1..99)
          =>
          LET s == bets[i].amount_usd
              p == bets[i].poly_price
              d == capital' - capital
          IN  /\ bets'[i].pnl # NoneVal
              /\ total_pnl' - total_pnl = d
              /\ bets'[i].pnl = Some(d)
              /\ IF bets'[i].result = bets[i].bet_on
                 THEN d * p = s * (100 - p) /\ d > 0
                 ELSE d = 0 - s /\ d < 0]_vars

\* C8 amended: the amount added to capital and total_pnl is
\* stake * (100/price - 1) > 0 on a win and -stake on a loss; the pnl stored in
\* the position is that amount rounded to 4 decimals (and keeps its sign).
\* From capital 20.00, 6.60 at 55 cents gives pnl 5.40 / capital 25.40 on a win
\* and pnl -6.60 / capital 13.40 on a loss.
C8_PnlRounded ==
    [][\A i \in 1..Len(bets) :
          (/\ i <= Len(bets')
           /\ bets[i].status = "OPEN" /\ bets'[i].status = "RESOLVED"
           /\ bets[i].poly_price \in 1..99)
          =>
          LET s == bets[i].amount_usd
              p == bets[i].poly_price
              d == capital' - capital
              won == bets'[i].result = bets[i].bet_on
          IN  /\ bets'[i].pnl # NoneVal
              /\ total_pnl' - total_pnl = d
              /\ bets'[i].pnl = Some(Round4(d))
              /\ IF won
                 THEN d * p = s * (100 - p) /\ d > 0 /\ bets'[i].pnl[1] > 0
                 ELSE d = 0 - s /\ d < 0 /\ bets'[i].pnl[1] < 0
              /\ (capital = 20 * DOLLAR /\ s = 660 * CENT /\ p = 55) =>
                    IF won
                    THEN bets'[i].pnl = Some(540 * CENT)
                         /\ capital' = 2540 * CENT
                    ELSE bets'[i].pnl = Some(0 - 660 * CENT)
                         /\ capital' = 1340 * CENT]_vars

C8_Witness ==
    /\ capital = 2540 * CENT
    /\ \E i \in 1..Len(bets) :
          bets[i].status = "RESOLVED" /\ bets[i].pnl = Some(540 * CENT)

\* C9: a position goes from OPEN to RESOLVED only in run_evening's loop and
\* only when this round's answer for its home|away key has status FINAL; for
\* any other answer (another status, none at all) the loop leaves the ledger
\* as it is and keeps the position pending, and the pending list is the next
\* round's.
C9_OnlyFinalResolves ==
    [][/\ \A i \in 1..Len(bets) :
            (/\ i <= Len(bets')
             /\ bets[i].status = "OPEN" /\ bets'[i].status = "RESOLVED")
            => (pc = "ev_loop" /\ resolved_map[key_of(bets[i])].status = "FINAL")
       /\ (/\ pc = "ev_loop" /\ todo # <<>> /\ pc' # "boot"
           /\ resolved_map[key_of(bets[Head(todo)])].status # "FINAL")
          => /\ bets' = bets
             /\ capital' = capital /\ total_pnl' = total_pnl
             /\ still_pending' = Append(still_pending, Head(todo))
       /\ (pc = "ev_saved" /\ pc' = "ev_sleep") => open_bets' = still_pending
       /\ (pc = "ev_round" /\ pc' = "ev_loop") => todo' = open_bets]_botvars

C9_Witness ==
    /\ pc = "ev_round" /\ attempt > 1
    /\ \E i \in SeqToSet(open_bets) : bets[i].status = "OPEN"

\* C10: a settlement cycle makes at most MAX_EVENING_RETRIES rounds, with one
\* query in each; after a round's save it returns at once when nothing is
\* pending, returns (deferred) without a wait after the last round, and waits
\* for another round only when something is pending and a round is left.
C10_RoundsBounded ==
    /\ [](/\ attempt <= MAX_EVENING_RETRIES
          /\ queries <= MAX_EVENING_RETRIES
          /\ pc = "ev_round" => queries = attempt - 1
          /\ pc \in {"ev_loop", "ev_saved", "ev_sleep"} => queries = attempt)
    /\ [][(pc = "ev_saved" /\ pc' # "boot") =>
             /\ still_pending = <<>> => pc' = "idle"
             /\ (still_pending # <<>> /\ attempt = MAX_EVENING_RETRIES)
                   => (pc' = "idle" /\ SeqToSet(still_pending) \subseteq deferred')
             /\ (still_pending # <<>> /\ attempt < MAX_EVENING_RETRIES)
                   => pc' = "ev_sleep"]_botvars

C10_Witness ==
    pc = "ev_saved" /\ attempt = MAX_EVENING_RETRIES /\ still_pending # <<>>

\* the score run_morning computes for a candidate, and its action
nea_of(g) ==
    compute_nea(g.poly_price, g.vegas_prob, g.news_score,
                g.home_away_factor, g.streak_pct)

action_of(g) == interpret_nea(nea_of(g))[1]

\* deployed at or above capital * pct / 100, in exact arithmetic
AtOrAboveCap(cap, bs, pct) ==
    \/ cap <= 0
    \/ deployed_capital(bs) > PctOf(cap, pct)
    \/ deployed_capital(bs) = PctOf(cap, pct) /\ PctExact(cap, pct)

\* C11: while the deployed capital is at or above capital * MAX_TOTAL_EXPOSED,
\* no step of a morning session (the breaker, the fetch, any candidate
\* whatever its score, the end of the loop) places a position or changes the
\* ledger.
C11_CircuitBreaker ==
    [][(/\ pc \in {"idle", "m_fetch", "m_loop"}
        /\ pc' \in {"idle", "m_fetch", "m_loop", "m_order", "save_open"}
        /\ AtOrAboveCap(capital, bets, MAX_TOTAL_EXPOSED))
       => /\ pc' # "m_order"
          /\ UNCHANGED ledger]_botvars

C11_Witness ==
    /\ pc = "m_loop" /\ games # <<>>
    /\ action_of(Head(games)) = "BUY"
    /\ AtOrAboveCap(capital, bets, MAX_TOTAL_EXPOSED)

\* C12: in a running process the position list grows only in run_morning's
\* loop, by one position, and that position is the candidate's, whose action
\* is BUY (score below -5); a candidate whose action is NEUTRAL or AVOID
\* leaves the ledger as it is and the loop goes on to the next one.
C12_ScorerGates ==
    [][/\ (pc # "boot" /\ Len(bets') > Len(bets)) =>
            /\ pc = "m_loop" /\ games # <<>>
            /\ action_of(Head(games)) = "BUY"
            /\ nea_of(Head(games)) < 0 - 5000
            /\ Len(bets') = Len(bets) + 1
            /\ key_of(bets'[Len(bets')]) = key_of(Head(games))
            /\ bets'[Len(bets')].bet_on = Head(games).bet_on
       /\ (/\ pc = "m_loop" /\ games # <<>> /\ pc' # "boot"
           /\ action_of(Head(games)) \in {"NEUTRAL", "AVOID"}) =>
            /\ UNCHANGED ledger
            /\ pc' = "m_loop" /\ games' = Tail(games)]_botvars

C12_Witness ==
    /\ pc = "m_loop" /\ games # <<>>
    /\ nea_of(Head(games)) = 0 - 5000
    /\ action_of(Head(games)) = "NEUTRAL"
    /\ \E i \in 1..Len(bets) : bets[i].status = "OPEN" /\ bets[i].date = today

\* the stake before rounding: min(capital * MAX_BET_PCT, available_capital)
raw_stake(cap, bs) ==
    Min(PctOf(cap, MAX_BET_PCT), available_capital(cap, bs, MAX_TOTAL_EXPOSED))

\* C13: a position run_morning places carries a stake that is a whole number
\* of cents within half a cent of min(capital * MAX_BET_PCT,
\* available_capital(MAX_TOTAL_EXPOSED)) as they are at that moment, at least
\* 0.10 and at most the capital; a candidate whose stake rounds below 0.10 is
\* passed over and the ledger stays as it is.
C13_StakeBounds ==
    [][(pc = "m_loop" /\ games # <<>> /\ pc' # "boot") =>
          LET raw == raw_stake(capital, bets) IN
          /\ pc' = "m_order" =>
                LET a == bets'[Len(bets')].amount_usd IN
                /\ Len(bets') = Len(bets) + 1
                /\ a % CENT = 0
                /\ 2 * (a - raw) <= CENT /\ 2 * (raw - a) <= CENT
                /\ a >= DUST_CENTS * CENT
                /\ a <= capital
          /\ 2 * raw < (2 * DUST_CENTS - 1) * CENT =>
                /\ pc' = "m_loop" /\ games' = Tail(games)
                /\ UNCHANGED ledger]_botvars

C13_Witness ==
    /\ pc = "m_order" /\ Len(games) >= 2
    /\ bets[Len(bets)].amount_usd # PctOf(capital, MAX_BET_PCT)
    /\ action_of(games[2]) = "BUY"
    /\ 2 * raw_stake(capital, bets) < (2 * DUST_CENTS - 1) * CENT

FirstOpenWithKey(bs, k) ==
    CHOOSE i \in OpenWithKey(bs, k) : \A j \in OpenWithKey(bs, k) : i <= j

\* C15 as stated: for any key with an OPEN position and any winner,
\* resolve_bet resolves the first OPEN position under the key and changes no
\* other position, keeps the length and order of the list, and moves capital
\* by that position's pnl (the stored pnl being the amount rounded to 4
\* decimals).
C15_FirstMatchOnly ==
    \A k \in Keys : \A w \in {k[1], k[2]} :
        OpenWithKey(bets, k) # {} =>
            LET r == resolve_bet(capital, total_pnl, bets, k, w, "F")
                i == FirstOpenWithKey(bets, k)
            IN  /\ Len(r.bets) = Len(bets)
                /\ \A j \in 1..Len(bets) : j # i => r.bets[j] = bets[j]
                /\ r.bets[i].status = "RESOLVED"
                /\ r.bets[i] = [bets[i] EXCEPT !.status = "RESOLVED",
                                  !.result = w, !.final_score = "F",
                                  !.pnl = r.bets[i].pnl]
                /\ r.bets[i].pnl = Some(Round4(r.capital - capital))

\* what a resolve_bet call hands back to its caller: the exception when it
\* raised, else None (the return after a resolution and the fall-through after
\* the warning alike)
resolve_bet_returns(r) == IF r.raised THEN "ZeroDivisionError" ELSE "None"

\* C16 as stated: in any ledger state, a resolve_bet call that finds no OPEN
\* position under its key changes nothing and hands its caller something
\* else than a call that resolved a position does.
C16_NotFoundReported ==
    \A k1 \in Keys : \A k2 \in Keys : \A w1 \in Teams : \A w2 \in Teams :
        LET ok      == resolve_bet(capital, total_pnl, bets, k1, w1, "F")
            missing == resolve_bet(capital, total_pnl, bets, k2, w2, "F")
        IN  (ok.found /\ ~ok.raised /\ ~missing.found) =>
                /\ missing.bets = bets
                /\ missing.capital = capital /\ missing.total_pnl = total_pnl
                /\ resolve_bet_returns(missing) # resolve_bet_returns(ok)

\* C17 as stated: whatever the data source does in a morning session, the
\* fetch either brings candidates or leaves the session with the ledger as it
\* was and the scheduler goes on; it never ends the process.
C17_FetchFailureRecovered ==
    [][(pc = "m_fetch" /\ pc' \notin {"m_loop", "boot"}) =>
          (pc' = "idle" /\ UNCHANGED ledger)]_botvars

\* C18: starting the process on a snapshot file that exists but is malformed
\* (truncated, or lacking a field) fails: no ledger comes to be, the file is
\* left as it is, and the process takes no further step.
C18_CorruptionIsFatal ==
    /\ [][(pc = "boot" /\ IsMalformed(file)) =>
             /\ pc' = "fatal"
             /\ file' = file
             /\ capital' = 0 /\ initial' = 0 /\ bets' = <<>>]_vars
    /\ [][pc # "fatal"]_vars

C18_Witness == pc = "fatal" /\ file.content = "partial"

\* C19: a dashboard request served at any moment of the bot's run, in the
\* middle of a save included, changes neither the snapshot file nor the
\* ledger nor where the bot is; served while the file is empty or half
\* written it answers with the projection of the default record (capital and
\* initial 20.00, no positions), and served from a complete file it answers
\* with that file's figures.
C19_DashboardReadSafe ==
    [][(dash' # dash /\ dash' # NoneVal) =>
          /\ file' = file /\ UNCHANGED ledger /\ pc' = pc
          /\ file.content \in {"empty", "partial"} =>
                dash' = Some([capital |-> DASHBOARD_DEFAULT_CAPITAL * DOLLAR,
                              initial |-> DASHBOARD_DEFAULT_CAPITAL * DOLLAR,
                              total_pnl |-> 0, total_bets |-> 0,
                              open_bets |-> 0, wins |-> 0, losses |-> 0])
          /\ file.content = "full" =>
                /\ dash'[1].capital = file.capital
                /\ dash'[1].total_pnl = file.total_pnl
                /\ dash'[1].total_bets = Len(file.bets)
                /\ dash'[1].wins + dash'[1].losses + dash'[1].open_bets
                      = Len(file.bets)]_vars

C19_Witness ==
    /\ dash # NoneVal /\ dash[1].total_bets = 0
    /\ file.content = "partial"
    /\ pc = "save_dump" /\ Len(bets) > 0 /\ capital # initial

\* a round of the retry loop is under way or has just been saved
InEveningRound ==
    \/ pc \in {"ev_round", "ev_loop", "ev_saved", "ev_sleep"}
    \/ pc \in {"save_open", "save_dump"} /\ ret = "ev_saved"

\* C20 as stated: after each round's save (before the wait, before the cycle
\* ends) the snapshot file holds the in-memory ledger (capital and total_pnl
\* to 4 decimals), and when the process dies during a later wait or round the
\* file still holds, as settled, every position that was settled before that
\* round began.
C20_SettledSurvivesCrash ==
    [][/\ pc \in {"ev_saved", "ev_sleep"} =>
             file = Snapshot(capital, initial, total_pnl, bets)
       /\ (InEveningRound /\ pc' = "boot") =>
             \A i \in 1..Len(bets) :
                 (bets[i].status = "RESOLVED" /\ i \notin SeqToSet(open_bets)) =>
                     /\ file'.content = "full"
                     /\ i <= Len(file'.bets)
                     /\ file'.bets[i] = bets[i]]_vars

\* C21 as stated: for every ledger the bot holds, save() followed by a load of
\* the file into a new Portfolio gives the same capital, the same total_pnl
\* and the same position list.
C21_RoundTripIdentical ==
    Running =>
        LET l == loaded(Snapshot(capital, initial, total_pnl, bets)) IN
        /\ l.capital = capital
        /\ l.total_pnl = total_pnl
        /\ l.bets = bets

\* C21 amended: save() followed by a load gives capital and total_pnl rounded
\* to 4 decimals (within 0.00005 of the values in memory), the same initial
\* and the same position list in the same order; a second save and load
\* changes nothing more.
C21_RoundTripRounded ==
    Running =>
        LET l  == loaded(Snapshot(capital, initial, total_pnl, bets))
            l2 == loaded(Snapshot(l.capital, l.initial, l.total_pnl, l.bets))
        IN
        /\ l.capital = Round4(capital)
        /\ 2 * (l.capital - capital) < E4 /\ 2 * (capital - l.capital) < E4
        /\ l.total_pnl = Round4(total_pnl)
        /\ 2 * (l.total_pnl - total_pnl) < E4
        /\ 2 * (total_pnl - l.total_pnl) < E4
        /\ l.capital % E4 = 0 /\ l.total_pnl % E4 = 0
        /\ l.initial = initial
        /\ l.bets = bets
        /\ l2 = l

C21_Witness ==
    /\ pc = "idle" /\ capital % E4 # 0
    /\ file = Snapshot(capital, initial, total_pnl, bets)
    /\ file.capital # capital

\* positions a caller can hand to place_bet: without an id (id 0), with an id
\* of its own, and with a status other than OPEN
PlaceInputs ==
    BetCatalog
    \cup {[b EXCEPT !.id = 77] : b \in BetCatalog}
    \cup {[b EXCEPT !.status = "RESOLVED"] : b \in BetCatalog}

\* C22 as stated: place_bet appends the position as the last element with
\* status OPEN whatever status came in, gives it an id only when it has none
\* and keeps an id it has, and changes no existing position (capital and
\* total_pnl are not its to change).
C22_PlaceBetContract ==
    \A b \in PlaceInputs :
        LET bs == place_bet(bets, b)
            n  == Len(bets) + 1
        IN  /\ Len(bs) = n
            /\ \A i \in 1..Len(bets) : bs[i] = bets[i]
            /\ bs[n].status = "OPEN"
            /\ bs[n].id # 0
            /\ b.id # 0 => bs[n].id = b.id
            /\ bs[n] = [b EXCEPT !.status = "OPEN", !.id = bs[n].id]

\* C23 as stated: in any ledger state, resolving the first OPEN position under
\* a key as a win never fails and settles at the price clamped to 1..100:
\* capital moves by stake * (100 / clamp(price) - 1), which is never negative,
\* and the stored pnl is never negative.
C23_EntryPriceClamped ==
    \A k \in Keys : \A w \in {k[1], k[2]} :
        (OpenWithKey(bets, k) # {} /\ bets[FirstOpenWithKey(bets, k)].bet_on = w) =>
            LET i  == FirstOpenWithKey(bets, k)
                r  == resolve_bet(capital, total_pnl, bets, k, w, "F")
                cp == Max(1, Min(100, bets[i].poly_price))
            IN  /\ ~r.raised
                /\ r.bets[i].pnl # NoneVal
                /\ r.bets[i].pnl[1] >= 0
                /\ (r.capital - capital) * cp = bets[i].amount_usd * (100 - cp)

\* C24 as stated: in any ledger state exposure_ratio() is deployed / capital
\* when capital is positive and 1.0 when capital is zero or negative, so that
\* with a non-positive capital the test exposure_ratio() >= MAX_TOTAL_EXPOSED
\* always answers yes.
C24_NonPositiveCapitalFullyExposed ==
    LET r == exposure_ratio(capital, bets) IN
    /\ capital > 0 => r = <<deployed_capital(bets), capital>>
    /\ capital <= 0 =>
          /\ r[1] = r[2]
          /\ ExposureAtOrAbove(capital, bets, MAX_TOTAL_EXPOSED) = {TRUE}

\* C25 as stated: every candidate parse_games returns has poly_price and
\* vegas_prob within [1, 99].
C25_CandidatesWithin1To99 ==
    (pc = "returned" /\ call.fn = "parse_games") =>
        \A i \in 1..Len(result.valid) :
            /\ result.valid[i].poly_price.t = "num"
            /\ result.valid[i].vegas_prob.t = "num"
            /\ result.valid[i].poly_price.v \in (1 * HalfPoints)..(99 * HalfPoints)
            /\ result.valid[i].vegas_prob.v \in (1 * HalfPoints)..(99 * HalfPoints)

\* C26: _call makes at most max_retries (4) attempts; before each attempt
\* after the first it has waited 30, 60, then 120 seconds, and only after a
\* rate-limit or server error; an error it raises is the one of its last
\* attempt, either not transient or met on attempt 4; once it has returned or
\* raised it makes no further attempt.
C26_BoundedBackoff ==
    /\ [](call.fn = "_call" /\ pc \in {"attempting", "returned"} =>
            /\ result.attempt \in 1..4
            /\ result.waits = SubSeq(<<30, 60, 120>>, 1, result.attempt - 1)
            /\ \A i \in 1..Len(result.waits) :
                  call.outcomes[i] \in {"rate_limit", "server_err"}
            /\ result.out = "returned" => call.outcomes[result.attempt] = "ok"
            /\ result.out = "raised" =>
                  /\ result.error = call.outcomes[result.attempt]
                  /\ result.error # "ok"
                  /\ \/ result.error = "other"
                     \/ result.attempt = 4
            /\ pc = "returned" <=> result.out # "running")
    /\ [][call.fn = "_call" /\ pc = "returned" => result' = result]_vars
    /\ [][call.fn = "_call" /\ pc = "attempting" /\ pc' = "attempting" =>
            /\ call.outcomes[result.attempt] \in {"rate_limit", "server_err"}
            /\ result'.attempt = result.attempt + 1]_vars

C26_Witness ==
    /\ call.fn = "_call" /\ pc = "returned"
    /\ result.out = "raised" /\ result.error = "server_err"
    /\ result.attempt = 4 /\ result.waits = <<30, 60, 120>>

\* C27 as stated: compute_nea(p_poly, p_vegas, n, v, r) is
\* p_poly - (0.45*p_vegas + 0.40*newsNorm(n) + 0.10*v + 0.05*clamp(r, 0, 100))
\* rounded to 3 decimals.
C27_ReferenceWeights ==
    (pc = "returned" /\ call.fn = "score") =>
        LET p_poly  == call.args[1]
            p_vegas == call.args[2]
            n       == call.args[3]
            v       == call.args[4]
            r       == call.args[5]
            fair600 == 6 * 45 * p_vegas
                       + 40 * (Max(0 - 40, Min(20, n)) + 40) * 10
                       + 6 * 10 * v
                       + 6 * 5 * Max(0, Min(100, r))
        IN  result.nea = (10 * (600 * p_poly - fair600) + 3) \div 6

\* C28: interpret_nea is monotone (the signal of a score is at least as
\* favourable as that of every score not below it, in the order BUY/HIGH >
\* BUY/MEDIUM > NEUTRAL > AVOID/MEDIUM > AVOID/HIGH), and it gives BUY exactly
\* below -5, AVOID exactly above 5, and NEUTRAL from -5 to 5.
C28_InterpretMonotone ==
    LET Rank(sig) ==
            CASE sig = <<"BUY", "HIGH">> -> 5
              [] sig = <<"BUY", "MEDIUM">> -> 4
              [] sig[1] = "NEUTRAL" -> 3
              [] sig = <<"AVOID", "MEDIUM">> -> 2
              [] sig = <<"AVOID", "HIGH">> -> 1
    IN
    (pc = "returned" /\ call.fn = "interpret_nea") =>
        /\ \A e2 \in NeaInputs :
              call.nea <= e2 =>
                 Rank(<<result.action, result.confidence>>)
                    >= Rank(interpret_nea(e2))
        /\ result.action = "BUY" <=> call.nea < 0 - 5000
        /\ result.action = "AVOID" <=> call.nea > 5000
        /\ result.action = "NEUTRAL" <=> (0 - 5000 <= call.nea /\ call.nea <= 5000)

C28_Witness ==
    /\ pc = "returned" /\ call.fn = "interpret_nea"
    /\ call.nea = 0 - 5000 /\ result.action = "NEUTRAL"

\* C29: the scorer gives AVOID for (75, 72, -35, 5, 60), BUY for
\* (40, 60, 5, 5, 80), BUY for (45, 55, 25, -5, 40) and NEUTRAL for
\* (50, 50, 0, 0, 50).
C29_ReferenceFixtures ==
    (pc = "returned" /\ call.fn = "score") =>
        /\ call.args = <<75, 72, 0 - 35, 5, 60>> => result.action = "AVOID"
        /\ call.args = <<40, 60, 5, 5, 80>> => result.action = "BUY"
        /\ call.args = <<45, 55, 25, 0 - 5, 40>> => result.action = "BUY"
        /\ call.args = <<50, 50, 0, 0, 50>> => result.action = "NEUTRAL"

C29_Witness ==
    /\ pc = "returned" /\ call.fn = "score"
    /\ call.args = <<50, 50, 0, 0, 50>>
    /\ result.nea = 0 - 3333 /\ result.action = "NEUTRAL"

\* C30 as stated: normalize_news_score returns a value in [0, 100], 0 for
\* raw -40, 50 for raw 0, and 100 for raw +20 and anything above.
C30_NewsNormalisation ==
    (pc = "returned" /\ call.fn = "normalize_news_score") =>
        /\ result.times6 \in 0..(6 * 100)
        /\ call.raw_n = 0 - 40 => result.times6 = 0
        /\ call.raw_n = 0 => result.times6 = 6 * 50
        /\ call.raw_n >= 20 => result.times6 = 6 * 100

\* the positions of bs that are OPEN
OpenIndices(bs) == {i \in 1..Len(bs) : bs[i].status = "OPEN"}

\* C32: from a fresh ledger, through morning and evening sessions alone, at
\* most one position is OPEN in every reachable state, in the ledger and in
\* the snapshot file; so a morning session places at most one position
\* however many BUY candidates it receives.
C32_AtMostOneOpen ==
    /\ Cardinality(OpenIndices(bets)) <= 1
    /\ Cardinality(OpenIndices(file.bets)) <= 1

C32_Witness ==
    /\ pc = "m_order" /\ Len(games) = 2
    /\ action_of(games[2]) = "BUY"
    /\ Cardinality(OpenIndices(bets)) = 1

\* C33: from a fresh ledger with positive initial capital, through morning
\* and evening sessions alone, capital - deployed_capital() is strictly
\* positive in every state of a running process, so capital never reaches
\* zero or goes negative through losses.
C33_FreeCapitalPositive ==
    Running =>
        /\ capital - deployed_capital(bets) > 0
        /\ capital > 0

C33_Witness ==
    /\ Running
    /\ \E i \in 1..Len(bets) : IsLoss(bets[i])
    /\ OpenIndices(bets) # {}
    /\ capital < initial
    /\ capital - deployed_capital(bets) > 0

\* C34: in run_evening, for any ledger contents, whenever a pending position
\* is counted as resolved in a round and dropped from the pending list, that
\* same position has status RESOLVED in the ledger: no position is dropped
\* from pending while it is still OPEN.
C34_DroppedIsResolved ==
    [][(/\ pc = "ev_loop" /\ pc' = "ev_loop"
        /\ todo # <<>>
        /\ still_pending' = still_pending)
       => bets'[Head(todo)].status = "RESOLVED"]_vars

\* C35: resolve_bet is all-or-nothing: a call that ends in an error while
\* settling the matched position leaves the ledger exactly as it was (the
\* position still OPEN with no result, final_score or pnl; capital and
\* total_pnl unchanged).
C35_ResolveAllOrNothing ==
    [][\A key \in Keys : \A w \in {key[1], key[2]} :
          LET r == resolve_bet(capital, total_pnl, bets, key, w, "F") IN
          (/\ r.raised
           /\ capital' = r.capital /\ total_pnl' = r.total_pnl
           /\ bets' = r.bets)
          => UNCHANGED <<capital, total_pnl, bets>>]_vars

\* C31: across any sequence of process starts, run_first_boot_bet begins its
\* run_morning session at most once, and only in a process that started
\* outside the morning and evening windows without FORCE_MODE morning or
\* evening.
C31_FirstBootOnce ==
    /\ [](first_boot_sessions <= 1)
    /\ [][first_boot_sessions' # first_boot_sessions =>
            /\ main_env'[1].window \in {"sleep_until_morning", "sleep_until_evening"}
            /\ main_env'[1].force \notin {"morning", "evening"}]_vars

=============================================================================
